---- MODULE Spec2Model ----
(***************************************************************************)
(* Walk-forward portfolio back-test of solution_skeleton.py.               *)
(*                                                                         *)
(* Floating point values are modelled as exact rationals <<num, den>> in   *)
(* lowest terms with den > 0; NaN is the pair <<0, 0>> and propagates       *)
(* through arithmetic and fails every comparison, as in IEEE 754.          *)
(* A DataFrame of returns is a sequence of rows [month_end, ret]; a         *)
(* DataFrame of weights is the sequence of its list_stocks rows.           *)
(***************************************************************************)
EXTENDS Integers, Sequences, FiniteSets, TLC

VARIABLES
    pc,               \* position of the script / of generate_portfolio
    num_stocks,       \* number of stock columns of the two csv files
    df_returns_train, \* data/returns_train.csv
    df_returns_test,  \* data/returns_test.csv
    df_returns,       \* the combined Return Matrix
    df_weights_index, \* benchmark weights (script level)
    n_train,          \* generate_portfolio: len(df_train)
    df_weights,       \* generate_portfolio: the portfolio Weight Schedule
    i,                \* generate_portfolio: loop index (0-based)
    expected_returns, \* estimate of the current period
    cov_matrix,       \* estimate of the current period
    opt_result,       \* what minimize returned for each solved period
    df_rtn,           \* plot_total_return: the returned frame
    weights,          \* sharpe_ratio: argument weights
    mu,               \* sharpe_ratio: argument expected_returns
    sigma,            \* sharpe_ratio: argument cov_matrix
    fx                \* sharpe_ratio: value handed back to the minimizer

vars == <<pc, num_stocks, df_returns_train, df_returns_test, df_returns,
          df_weights_index, n_train, df_weights, i, expected_returns,
          cov_matrix, opt_result, df_rtn, weights, mu, sigma, fx>>

objective_vars == <<weights, mu, sigma, fx>>

----------------------------------------------------------------------------
(* Bounds of the model *)

MaxStocks == 10
MaxTrain == 2
MaxTest == 2
MaxWeight == 1

----------------------------------------------------------------------------
(* Floating point arithmetic as exact rationals *)

Abs(x) == IF x < 0 THEN -x ELSE x

RECURSIVE GCD(_, _)
GCD(a, b) == IF b = 0 THEN a ELSE GCD(b, a % b)

NaN == <<0, 0>>

IsNaN(x) == x[2] = 0

Rat(n, d) ==
    IF d = 0 THEN NaN
    ELSE LET g == GCD(Abs(n), Abs(d))
             s == IF d < 0 THEN -1 ELSE 1
         IN  <<(s * n) \div g, (s * d) \div g>>

Num(k) == <<k, 1>>

Add(x, y) ==
    IF IsNaN(x) \/ IsNaN(y) THEN NaN
    ELSE IF x[2] = 1 /\ y[2] = 1 THEN <<x[1] + y[1], 1>>
    ELSE Rat(x[1] * y[2] + y[1] * x[2], x[2] * y[2])

Sub(x, y) ==
    IF IsNaN(x) \/ IsNaN(y) THEN NaN
    ELSE IF x[2] = 1 /\ y[2] = 1 THEN <<x[1] - y[1], 1>>
    ELSE Rat(x[1] * y[2] - y[1] * x[2], x[2] * y[2])

Mul(x, y) ==
    IF IsNaN(x) \/ IsNaN(y) THEN NaN
    ELSE IF x[2] = 1 /\ y[2] = 1 THEN <<x[1] * y[1], 1>>
    ELSE Rat(x[1] * y[1], x[2] * y[2])

\* numpy/pandas division: 0/0 and x/0 on an empty or degenerate sample give NaN
Div(x, y) ==
    IF IsNaN(x) \/ IsNaN(y) \/ y[1] = 0 THEN NaN
    ELSE Rat(x[1] * y[2], x[2] * y[1])

Gt(x, y) == ~IsNaN(x) /\ ~IsNaN(y) /\ x[1] * y[2] > y[1] * x[2]

Lt(x, y) == Gt(y, x)

\* The sequence <<Op(1), ..., Op(n)>>
Tabulate(Op(_), n) == SubSeq([k \in 1 .. n |-> Op(k)], 1, n)

Sum(s) ==
    LET S[k \in 0 .. Len(s)] == IF k = 0 THEN Num(0) ELSE Add(S[k - 1], s[k])
    IN  S[Len(s)]

Prod(s) ==
    LET P[k \in 0 .. Len(s)] == IF k = 0 THEN Num(1) ELSE Mul(P[k - 1], s[k])
    IN  P[Len(s)]

----------------------------------------------------------------------------
(* Input data: the two csv files *)

list_stocks == 1 .. num_stocks

StockCounts == {3, 9} \cup (10 .. MaxStocks)

\* The content of a csv file: every row "flat", every row "move", or the
\* two alternating ("mixed", odd rows "move").
Patterns == {"flat", "move", "mixed"}

RowPattern(p, k) ==
    IF p = "mixed" THEN (IF k % 2 = 1 THEN "move" ELSE "flat") ELSE p

\* One row of returns. "flat": stock 2 is inactive (NaN), every other stock
\* returns 0. "move": stock 1 returns 2, stock 2 returns -1, the others 0.
\* "spike" is used only to overwrite rows when probing for look-ahead.
ReturnRow(p, n) ==
    [a \in 1 .. n |->
        CASE p = "flat"  -> IF a = 2 THEN NaN ELSE Num(0)
          [] p = "move"  -> IF a = 1 THEN Num(2) ELSE IF a = 2 THEN Num(-1) ELSE Num(0)
          [] p = "spike" -> Num(7 + a)]

\* The month_end columns: "ascending" is a walk-forward input (training
\* dates 1..nt, testing dates after them); "disordered" has the training
\* dates descending and the first testing date equal to the last training
\* date of the calendar.
Layouts == {"ascending", "disordered"}

\* month_end of the k-th training row (1-based) of nt training rows
TrainDate(layout, nt, k) ==
    IF layout = "disordered" THEN nt + 1 - k ELSE k

\* month_end of the k-th testing row after nt training rows
TestDate(layout, nt, k) ==
    IF layout = "disordered" THEN nt + k - 1 ELSE nt + k

\* pd.concat(objs=[a, b], ignore_index=True)
concat(a, b) == a \o b

----------------------------------------------------------------------------
(* equalise_weights *)

\* The variant of the docstring: 1/p on the p stocks active in the month,
\* nothing on the others.
equalise_weights_active(df) ==
    LET n_length == Len(df)
        df_copy == SubSeq(df, 1, n_length)
        active(k) == {a \in list_stocks : ~IsNaN(df_copy[k].ret[a])}
        written == [k \in 1 .. Len(df_copy) |->
                       [a \in list_stocks |->
                           IF a \in active(k) THEN Rat(1, Cardinality(active(k)))
                           ELSE Num(0)]]
    IN  [df_weights |-> written, df |-> df]

\* Returns the weights frame and the caller's frame as the call leaves it.
equalise_weights(df) ==
    LET n_length == Len(df)
        df_copy == SubSeq(df, 1, n_length)
        written == [k \in 1 .. Len(df_copy) |->
                       [a \in list_stocks |-> Rat(1, Cardinality(list_stocks))]]
    IN  [df_weights |-> written, df |-> df]

----------------------------------------------------------------------------
(* generate_portfolio: the walk-forward estimator *)

\* The look-ahead variant: the target period's own row is selected too.
df_latest_lookahead(df, t) == SelectSeq(df, LAMBDA r : r.month_end <= t)

\* df_returns[(df_returns["month_end"] < df_test.loc[i, "month_end"])]
df_latest(df, t) == SelectSeq(df, LAMBDA r : r.month_end < t)

Column(df, a) == Tabulate(LAMBDA k : df[k].ret[a], Len(df))

\* pandas mean(): NaN cells are skipped; the mean of no observation is NaN
mean(col) ==
    LET obs == SelectSeq(col, LAMBDA v : ~IsNaN(v))
    IN  Div(Sum(obs), Num(Len(obs)))

\* pandas cov(): pairwise complete observations, denominator nobs - 1,
\* NaN with fewer than 2 joint observations. The sum of the products of the
\* deviations from the means is taken as sum(xy) - sum(x) sum(y) / nobs, the
\* same number in exact arithmetic.
cov(xcol, ycol) ==
    LET both == SelectSeq(Tabulate(LAMBDA k : k, Len(xcol)),
                          LAMBDA k : ~IsNaN(xcol[k]) /\ ~IsNaN(ycol[k]))
        nobs == Len(both)
        sx   == Sum(Tabulate(LAMBDA k : xcol[both[k]], nobs))
        sy   == Sum(Tabulate(LAMBDA k : ycol[both[k]], nobs))
        sxy  == Sum(Tabulate(LAMBDA k : Mul(xcol[both[k]], ycol[both[k]]), nobs))
    IN  IF nobs < 2 THEN NaN
        ELSE Div(Sub(sxy, Div(Mul(sx, sy), Num(nobs))), Num(nobs - 1))

\* expected_returns and cov_matrix of the period whose month_end is t
Estimate(df, t) ==
    LET latest == df_latest(df, t)
        cols   == Tabulate(LAMBDA a : Column(latest, a), num_stocks)
        \* pandas fills one triangle and mirrors it
        lower  == Tabulate(LAMBDA a : Tabulate(LAMBDA b : cov(cols[a], cols[b]), a),
                           num_stocks)
    IN  [expected_returns |-> Tabulate(LAMBDA a : mean(cols[a]), num_stocks),
         cov_matrix       |->
             Tabulate(LAMBDA a : Tabulate(LAMBDA b : IF b <= a THEN lower[a][b]
                                                     ELSE lower[b][a],
                                          num_stocks), num_stocks)]

----------------------------------------------------------------------------
(* generate_portfolio: the constrained solve *)

initial_weights == [a \in list_stocks |-> Rat(1, num_stocks)]

\* bounds = [(0, 1) ...]
InBounds(x) == \A a \in list_stocks : ~Lt(x[a], Num(0)) /\ ~Gt(x[a], Num(1))

\* {"type": "eq", "fun": lambda w: np.sum(w) - 1}
SumConstraint(x) == Sub(Sum(x), Num(1)) = Num(0)

\* {"type": "ineq", "fun": lambda w: 0.10 - w}
CapConstraint(x) ==
    \A a \in list_stocks :
        LET c == Sub(Rat(10, 100), x[a]) IN ~IsNaN(c) /\ ~Lt(c, Num(0))

\* np.dot over a NaN estimate is NaN at every trial point
ObjectiveIsNaN ==
    \E a \in list_stocks :
        \/ IsNaN(expected_returns[a])
        \/ \E b \in list_stocks : IsNaN(cov_matrix[a][b])

\* Points SLSQP may stop at: the start point, the origin, a corner of the
\* box, and an all-NaN vector once the objective is NaN.
SolverPoints ==
    {initial_weights,
     [a \in list_stocks |-> Num(0)],
     [a \in list_stocks |-> IF a = 1 THEN Num(1) ELSE Num(0)]}
    \cup (IF ObjectiveIsNaN THEN {[a \in list_stocks |-> NaN]} ELSE {})

\* opt_result: x stays inside the box; success is reported only at a point
\* satisfying both constraints; nothing else is known of a failed solve.
SolverOutcomes ==
    {r \in [x : SolverPoints, success : BOOLEAN] :
        /\ InBounds(r.x)
        /\ r.success => (SumConstraint(r.x) /\ CapConstraint(r.x))}

\* The variant that inspects the optimised rows only.
LimitExceededOptimised(w) ==
    \E k \in n_train + 1 .. Len(w) : \E a \in list_stocks : Gt(w[k][a], Rat(101, 1000))

\* np.array(df_weights[list_stocks]) > 0.101, any element
LimitExceeded(w) ==
    \E k \in 1 .. Len(w) : \E a \in list_stocks : Gt(w[k][a], Rat(101, 1000))

----------------------------------------------------------------------------
(* plot_total_return *)

base_price == 100

\* The variant that leaves missing returns in place.
nan_kept(row) == row

\* np.nan_to_num(x=ar_returns, copy=False, nan=0), one row
nan_to_num(row) == [a \in DOMAIN row |-> IF IsNaN(row[a]) THEN Num(0) ELSE row[a]]

\* one row of np.sum(weights * ar_returns, axis=1)
RowReturn(w, r) == Sum(Tabulate(LAMBDA a : Mul(w[a], r[a]), num_stocks))

\* Series.cumprod()
cumprod(s) == Tabulate(LAMBDA j : Prod(SubSeq(s, 1, j)), Len(s))

\* sort_values(by="month_end"): every ascending order of the row labels;
\* the default sort is not stable, so equal dates may come in any order.
RECURSIVE sort_values(_, _)
sort_values(S, date) ==
    IF S = {} THEN {<<>>}
    ELSE UNION {{<<m>> \o rest : rest \in sort_values(S \ {m}, date)} :
                   m \in {k \in S : \A j \in S : date[k] <= date[j]}}

\* The set of frames df_rtn the call may return.
plot_total_return(rets, w_index, w_portfolio) ==
    LET N           == Len(rets)
        ar_returns  == Tabulate(LAMBDA k : nan_to_num(rets[k].ret), N)
        v_rtn_index == Tabulate(LAMBDA k : RowReturn(w_index[k], ar_returns[k]), N)
        v_rtn_port  == Tabulate(LAMBDA k : RowReturn(w_portfolio[k], ar_returns[k]), N)
        date        == Tabulate(LAMBDA k : rets[k].month_end, N)
    IN  {LET gi == cumprod(Tabulate(LAMBDA j : Add(Num(1), v_rtn_index[order[j]]), N))
             gp == cumprod(Tabulate(LAMBDA j : Add(Num(1), v_rtn_port[order[j]]), N))
         IN  [j \in 1 .. N |->
                 [label        |-> order[j],
                  month_end    |-> date[order[j]],
                  index        |-> v_rtn_index[order[j]],
                  portfolio    |-> v_rtn_port[order[j]],
                  index_tr     |-> Mul(gi[j], Num(base_price)),
                  portfolio_tr |-> Mul(gp[j], Num(base_price))]]
         : order \in sort_values(1 .. N, date)}

----------------------------------------------------------------------------
(* sharpe_ratio, over integer-valued arguments *)

ObjStocks == {1, 2}

Dot(u, v) == LET S[k \in 0 .. Len(u)] == IF k = 0 THEN 0 ELSE S[k - 1] + u[k] * v[k]
             IN  S[Len(u)]

\* np.dot(cov_matrix, weights)
MatVec(m, v) == [a \in 1 .. Len(m) |-> Dot(m[a], v)]

\* np.sqrt on a perfect square
Sqrt(x) == CHOOSE r \in 0 .. x : r * r = x

Cube(x) == x * x * x

\* portfolio_return / 0.5*(100*portfolio_volatility)**3 parses as
\* (portfolio_return / 0.5) * ((100*portfolio_volatility)**3); dividing by
\* 0.5 doubles.
sharpe_ratio(w, er, cm) ==
    LET portfolio_return     == Dot(w, er)
        portfolio_volatility == Sqrt(Dot(w, MatVec(cm, w)))
    IN  (portfolio_return * 2) * Cube(100 * portfolio_volatility)

----------------------------------------------------------------------------
(* The script: equalise_weights, generate_portfolio, plot_total_return *)

Init ==
    \E n \in StockCounts, nt \in 0 .. MaxTrain, ns \in 0 .. MaxTest, layout \in Layouts :
      \E tp \in Patterns, sp \in Patterns :
        /\ pc = "script"
        /\ num_stocks = n
        /\ df_returns_train =
              [k \in 1 .. nt |-> [month_end |-> TrainDate(layout, nt, k),
                                  ret |-> ReturnRow(RowPattern(tp, k), n)]]
        /\ df_returns_test =
              [k \in 1 .. ns |-> [month_end |-> TestDate(layout, nt, k),
                                  ret |-> ReturnRow(RowPattern(sp, k), n)]]
        /\ df_returns = <<>>
        /\ df_weights_index = <<>>
        /\ n_train = 0
        /\ df_weights = <<>>
        /\ i = 0
        /\ expected_returns = <<>>
        /\ cov_matrix = <<>>
        /\ opt_result = <<>>
        /\ df_rtn = <<>>
        /\ weights = <<>>
        /\ mu = <<>>
        /\ sigma = <<>>
        /\ fx = 0

\* script lines 212-213
Script ==
    /\ pc = "script"
    /\ LET r == equalise_weights(concat(df_returns_train, df_returns_test))
       IN  /\ df_returns' = r.df
           /\ df_weights_index' = r.df_weights
    /\ pc' = "generate_portfolio"
    /\ UNCHANGED <<num_stocks, df_returns_train, df_returns_test, n_train, df_weights,
                   i, expected_returns, cov_matrix, opt_result, df_rtn>>
    /\ UNCHANGED objective_vars

\* generate_portfolio, up to the loop
GenerateInit ==
    /\ pc = "generate_portfolio"
    /\ n_train' = Len(df_returns_train)
    /\ df_returns' = concat(df_returns_train, df_returns_test)
    /\ df_weights' = equalise_weights(SubSeq(df_returns', 1, n_train')).df_weights
    /\ i' = 0
    /\ pc' = "loop"
    /\ UNCHANGED <<num_stocks, df_returns_train, df_returns_test, df_weights_index,
                   expected_returns, cov_matrix, opt_result, df_rtn>>
    /\ UNCHANGED objective_vars

\* one pass of the loop, first half: the estimate of period i
EstimatePeriod ==
    /\ pc = "loop"
    /\ i < Len(df_returns_test)
    /\ LET e == Estimate(df_returns, df_returns_test[i + 1].month_end)
       IN  /\ expected_returns' = e.expected_returns
           /\ cov_matrix' = e.cov_matrix
    /\ pc' = "solve"
    /\ UNCHANGED <<num_stocks, df_returns_train, df_returns_test, df_returns,
                   df_weights_index, n_train, df_weights, i, opt_result, df_rtn>>
    /\ UNCHANGED objective_vars

\* The per-period variant of the limit check: stop at the first breach.
SolvePeriodChecked ==
    /\ pc = "solve"
    /\ \E r \in SolverOutcomes :
        /\ opt_result' = Append(opt_result, r)
        /\ df_weights' = Append(df_weights, r.x)
        /\ pc' = IF LimitExceeded(df_weights') THEN "raised" ELSE "loop"
    /\ i' = i + 1
    /\ UNCHANGED <<num_stocks, df_returns_train, df_returns_test, df_returns,
                   df_weights_index, n_train, expected_returns, cov_matrix, df_rtn>>
    /\ UNCHANGED objective_vars

\* one pass of the loop, second half: minimize, then append the row
SolvePeriod ==
    /\ pc = "solve"
    /\ \E r \in SolverOutcomes :
        /\ opt_result' = Append(opt_result, r)
        /\ df_weights' = Append(df_weights, r.x)
    /\ i' = i + 1
    /\ pc' = "loop"
    /\ UNCHANGED <<num_stocks, df_returns_train, df_returns_test, df_returns,
                   df_weights_index, n_train, expected_returns, cov_matrix, df_rtn>>
    /\ UNCHANGED objective_vars

\* range(len(df_test)) is exhausted
LoopExit ==
    /\ pc = "loop"
    /\ i = Len(df_returns_test)
    /\ pc' = "check"
    /\ UNCHANGED <<num_stocks, df_returns_train, df_returns_test, df_returns,
                   df_weights_index, n_train, df_weights, i, expected_returns,
                   cov_matrix, opt_result, df_rtn>>
    /\ UNCHANGED objective_vars

\* the 10% limit check and the return
LimitCheck ==
    /\ pc = "check"
    /\ pc' = IF LimitExceeded(df_weights) THEN "raised" ELSE "returned"
    /\ UNCHANGED <<num_stocks, df_returns_train, df_returns_test, df_returns,
                   df_weights_index, n_train, df_weights, i, expected_returns,
                   cov_matrix, opt_result, df_rtn>>
    /\ UNCHANGED objective_vars

\* script line 215
PlotTotalReturn ==
    /\ pc = "returned"
    /\ df_rtn' \in plot_total_return(df_returns, df_weights_index, df_weights)
    /\ pc' = "done"
    /\ UNCHANGED <<num_stocks, df_returns_train, df_returns_test, df_returns,
                   df_weights_index, n_train, df_weights, i, expected_returns,
                   cov_matrix, opt_result>>
    /\ UNCHANGED objective_vars

Next ==
    \/ Script
    \/ GenerateInit
    \/ EstimatePeriod
    \/ SolvePeriod
    \/ LoopExit
    \/ LimitCheck
    \/ PlotTotalReturn

Spec == Init /\ [][Next]_vars

----------------------------------------------------------------------------
(* sharpe_ratio evaluated at the minimizer's trial points *)

ObjInit ==
    /\ pc = "objective"
    /\ num_stocks = Cardinality(ObjStocks)
    /\ df_returns_train = <<>>
    /\ df_returns_test = <<>>
    /\ df_returns = <<>>
    /\ df_weights_index = <<>>
    /\ n_train = 0
    /\ df_weights = <<>>
    /\ i = 0
    /\ expected_returns = <<>>
    /\ cov_matrix = <<>>
    /\ opt_result = <<>>
    /\ df_rtn = <<>>
    /\ weights \in [ObjStocks -> 0 .. MaxWeight]
    /\ mu \in [ObjStocks -> -1 .. 1]
    /\ \E s \in [ObjStocks -> {0, 1}] :
          sigma = [a \in ObjStocks |-> [b \in ObjStocks |-> s[a] * s[b]]]
    /\ fx = 0

\* lambda w: sharpe_ratio(w, expected_returns, cov_matrix)
Evaluate ==
    /\ pc = "objective"
    /\ fx' = sharpe_ratio(weights, mu, sigma)
    /\ pc' = "evaluated"
    /\ UNCHANGED <<num_stocks, df_returns_train, df_returns_test, df_returns,
                   df_weights_index, n_train, df_weights, i, expected_returns,
                   cov_matrix, opt_result, df_rtn, weights, mu, sigma>>

ObjNext == Evaluate

SpecObjective == ObjInit /\ [][ObjNext]_vars

----------------------------------------------------------------------------
(* Properties *)

Returned == pc \in {"returned", "done"}

Limit == Rat(101, 1000)

Tolerance == Rat(1, 1000000)

\* C1: whenever generate_portfolio returns, every weight of every row of the
\* schedule (training and test rows) lies in [0, 0.101].
C1_WeightsWithinLimit ==
    Returned =>
        \A k \in 1 .. Len(df_weights) : \A a \in list_stocks :
            /\ ~IsNaN(df_weights[k][a])
            /\ ~Lt(df_weights[k][a], Num(0))
            /\ ~Gt(df_weights[k][a], Limit)

\* C2: every row of the returned schedule sums to 1 within 1e-6, whatever
\* the solver produced for the period.
C2_RowsSumToOne ==
    Returned =>
        \A k \in 1 .. Len(df_weights) :
            LET d == Sub(Sum(df_weights[k]), Num(1))
            IN  ~IsNaN(d) /\ ~Gt(d, Tolerance) /\ ~Lt(d, Sub(Num(0), Tolerance))

\* The rows of the combined matrix dated strictly before t, in their order.
RECURSIVE RowsBefore(_, _)
RowsBefore(k, t) ==
    IF k = 0 THEN <<>>
    ELSE IF df_returns[k].month_end < t THEN Append(RowsBefore(k - 1, t), df_returns[k])
    ELSE RowsBefore(k - 1, t)

\* The combined matrix with every row dated t or later overwritten.
FutureOverwritten(t) ==
    [k \in 1 .. Len(df_returns) |->
        IF df_returns[k].month_end >= t
        THEN [df_returns[k] EXCEPT !.ret = ReturnRow("spike", num_stocks)]
        ELSE df_returns[k]]

\* The arithmetic mean of the observed (non-NaN) returns of stock a in rows.
ObservedMean(rows, a) ==
    LET obs == {k \in 1 .. Len(rows) : ~IsNaN(rows[k].ret[a])}
        S[k \in 0 .. Len(rows)] ==
            IF k = 0 THEN Num(0)
            ELSE IF k \in obs THEN Add(S[k - 1], rows[k].ret[a]) ELSE S[k - 1]
    IN  IF obs = {} THEN NaN ELSE Div(S[Len(rows)], Num(Cardinality(obs)))

\* C3: the estimate used to solve a test period is computed from exactly the
\* rows of the combined matrix dated strictly before the period (all of them,
\* earlier test rows included): it is the estimate of the matrix cut down to
\* those rows, its means are their means, and overwriting every row dated at
\* or after the period leaves it unchanged.
C3_NoLookAhead ==
    pc = "solve" =>
        LET t     == df_returns_test[i + 1].month_end
            prior == RowsBefore(Len(df_returns), t)
            used  == [expected_returns |-> expected_returns, cov_matrix |-> cov_matrix]
        IN  /\ \A a \in list_stocks : expected_returns[a] = ObservedMean(prior, a)
            /\ Estimate(prior, t) = used
            /\ Estimate(FutureOverwritten(t), t) = used

\* C3 witness: a second test period is being solved, its estimate drawing on
\* the first test row, with rows dated at or after it present.
C3_Witness ==
    /\ pc = "solve"
    /\ i = 1
    /\ n_train >= 1
    /\ df_returns_test[1].month_end < df_returns_test[2].month_end
    /\ Len(RowsBefore(Len(df_returns), df_returns_test[2].month_end)) = n_train + 1
    /\ \E a \in list_stocks : ~IsNaN(expected_returns[a]) /\ expected_returns[a] # Num(0)

\* C4: generate_portfolio never returns a schedule holding a row taken from
\* a solve that did not converge.
C4_FailedSolveHalts ==
    Returned => \A k \in 1 .. Len(opt_result) : opt_result[k].success

\* C5: the value handed to the minimizer at w is -f(w), with
\* f(w) = (w . mu) / (0.5 * (100 * sqrt(w' Sigma w))^3).
C5_NegatedCubicObjective ==
    pc = "evaluated" =>
        LET ret == Dot(weights, mu)
            vol == Sqrt(Dot(weights, MatVec(sigma, weights)))
        IN  vol > 0 => Num(fx) = Rat(-2 * ret, Cube(100 * vol))

\* What the claim takes a period's return to be: the weighted sum of the
\* returns, a missing return counting as 0.
PeriodReturn(w, ret) ==
    LET S[a \in 0 .. num_stocks] ==
            IF a = 0 THEN Num(0)
            ELSE Add(S[a - 1], Mul(w[a], IF IsNaN(ret[a]) THEN Num(0) ELSE ret[a]))
    IN  S[num_stocks]

C7_SmallUniverseNeverReturns ==
    num_stocks < 10 => ~Returned

\* C7 amended: with fewer than 10 stocks and at least one training period,
\* generate_portfolio never returns, whatever the solver produced: the limit
\* check finds a training weight above 0.101 and raises.
C7_SmallUniverseWithTrainingNeverReturns ==
    (num_stocks < 10 /\ Len(df_returns_train) >= 1) =>
        /\ ~Returned
        /\ pc = "check" =>
              \E k \in 1 .. n_train : \E a \in list_stocks : Gt(df_weights[k][a], Limit)

\* C7 witness: 9 or fewer stocks, training rows, every test period solved to
\* a vector within the limit, and the run raised.
C7_Witness ==
    /\ pc = "raised"
    /\ num_stocks < 10
    /\ Len(df_returns_train) >= 1
    /\ Len(df_returns_test) >= 1
    /\ Len(df_weights) = n_train + Len(df_returns_test)
    /\ \A k \in n_train + 1 .. Len(df_weights) : \A a \in list_stocks :
          ~Gt(df_weights[k][a], Limit)

\* Some training date is not before some testing date, or the dates of one
\* of the two datasets are not strictly increasing.
BadOrdering ==
    \/ \E j \in 1 .. Len(df_returns_train), k \in 1 .. Len(df_returns_test) :
          df_returns_train[j].month_end >= df_returns_test[k].month_end
    \/ \E j \in 1 .. Len(df_returns_train) - 1 :
          df_returns_train[j].month_end >= df_returns_train[j + 1].month_end
    \/ \E k \in 1 .. Len(df_returns_test) - 1 :
          df_returns_test[k].month_end >= df_returns_test[k + 1].month_end

\* C8: on overlapping or non-monotonic dates no period is ever estimated.
C8_OrderingFailsFast ==
    BadOrdering => (pc # "solve" /\ opt_result = <<>>)

C10_LimitCheckedOnceAtEnd ==
    [][/\ pc = "solve" =>
            /\ pc' = "loop"
            /\ i' = i + 1
            /\ Len(df_weights') = Len(df_weights) + 1
            /\ SubSeq(df_weights', 1, Len(df_weights)) = df_weights
       /\ (pc = "loop" /\ i < Len(df_returns_test)) =>
            (pc' = "solve" /\ df_weights' = df_weights)
       /\ pc' = "check" => (pc = "loop" /\ i = Len(df_returns_test))
       /\ pc = "check" => (pc' \in {"raised", "returned"} /\ df_weights' = df_weights)
       /\ pc' = "raised" =>
            /\ pc = "check"
            /\ Len(df_weights) = n_train + Len(df_returns_test)
      ]_vars

\* C10 witness: 10 or more stocks, the first of several test periods solved
\* to a vector above the limit, every later period solved and appended, and
\* only then the run raised.
C10_Witness ==
    /\ pc = "raised"
    /\ num_stocks >= 10
    /\ Len(df_returns_test) >= 2
    /\ Len(df_weights) = n_train + Len(df_returns_test)
    /\ \E a \in list_stocks : Gt(df_weights[n_train + 1][a], Limit)
    /\ \A k \in n_train + 2 .. Len(df_weights) : \A a \in list_stocks :
          ~Gt(df_weights[k][a], Limit)

====
